---- MODULE Spec2Model ----
(***************************************************************************)
(* AI Context Firewall: the state store (configuration and bounded audit   *)
(* log behind one RWMutex) and the proxy's inspect-and-forward pipeline.   *)
(*                                                                         *)
(* The specifications share the store's and the classifier's operators:     *)
(*   SpecStore      goroutines calling AddLog, GetLogs, DeleteLog and       *)
(*                  ClearLogs, one lock step / body step / unlock step      *)
(*                  each, so that interleavings inside an operation are     *)
(*                  visible;                                                *)
(*   Spec           proxy handlers serving POST requests (ServeHTTP, the    *)
(*                  classifier call, the backend call) while the            *)
(*                  configuration is rewritten; every store operation is    *)
(*                  one step there;                                         *)
(*   SpecAnyMethod  the same handlers serving requests of any method;       *)
(*   SpecConfig     the dashboard's form and the configuration API writing  *)
(*                  the configuration of a store started on any file, with  *)
(*                  writes to disk that can fail;                           *)
(*   SpecInspect    Inspect on every kind of classifier reply;              *)
(*   SpecChat       handleChat extracting the inspected content;            *)
(*   SpecBoot       main: NewStore on any file, the environment overrides,  *)
(*                  then the configuration API;                             *)
(*   SpecBlocked    respondBlocked writing the response of a blocked        *)
(*                  request;                                                *)
(*   SpecSetConfig  goroutines calling SetConfig and GetConfig, one lock    *)
(*                  step, body steps and unlock step each;                  *)
(*   SpecLock       request handlers and the dashboard on the store's       *)
(*                  mutex, every store call a lock step and an unlock step, *)
(*                  the classifier and backend calls in between;            *)
(*   SpecSnapshot   the same handlers with SetConfig between their steps.   *)
(***************************************************************************)
EXTENDS Integers, Sequences, FiniteSets, TLC

(***************************************************************************)
(* Bounds of the model                                                     *)
(***************************************************************************)
\* AddLog is called while nextID <= MaxID: more than maxLogs insertions.
MaxID == 203
\* The dashboard's log operations (GetLogs, DeleteLog, ClearLogs) are issued
\* while at most Warm entries were inserted, and from the moment at most Warm
\* insertions are missing to reach maxLogs; in between only AddLog runs.
Warm == 1
\* DeleteLog, ClearLogs and lock-step SetConfig calls the dashboard issues in
\* one run.
MaxDashOps == 2
\* Requests the proxy serves in one run.
MaxReqs == 2
\* Messages in the body of one chat request.
MaxMsgs == 3

(***************************************************************************)
(* Program constants                                                       *)
(***************************************************************************)
maxLogs == 200

VARIABLES
    \* Store
    logs,        \* s.logs: the audit log, oldest first
    nextID,      \* s.nextID
    mu,          \* s.mu: [writer: goroutine or NoOne, readers: set of goroutines]
    \* goroutines calling the store (SpecStore)
    gpc,         \* position of each goroutine inside a store operation
    garg,        \* DeleteLog's id argument, SetConfig's cfg argument
    gret,        \* value the operation returns: GetLogs' slice, DeleteLog's bool,
                 \* the outcome of SetConfig's write
    \* history
    issued,      \* every id AddLog has assigned so far
    lastID,      \* the id the latest AddLog assigned (0: none yet)
    removed,     \* ids a DeleteLog call has removed
    nOps,        \* DeleteLog, ClearLogs and lock-step SetConfig calls issued
    \* Store configuration
    config,      \* s.config
    \* proxy handlers (Spec): one goroutine per request in flight
    hpc,         \* "idle", "classifier" (Inspect's POST in flight),
                 \* "backend" (forward's client.Do in flight), "done"
    req,         \* the request being served: [n, path, body]
    snap,        \* inspectAndForward's cfg := p.store.GetConfig()
    verdict,     \* what Inspect returned: [err, RiskLevel, Score]
    action,      \* inspectAndForward's action
    resp,        \* what was written to the caller: [status, kind]
    sent,        \* the body handed to the backend
    ncls,        \* classifier calls made for the request
    nbk,         \* backend calls made for the request
    served,      \* requests accepted so far
    \* configuration on disk and the dashboard's calls (SpecConfig)
    file,        \* the file at s.configPath: [state, cfg]
    lastSet,     \* the latest SetConfig call: its argument, its outcome, its caller
    got,         \* what GetConfig returned since the latest SetConfig call
    prompt,      \* what getSystemPrompt returned since the latest SetConfig call
    \* Inspect alone (SpecInspect): two calls, each with the classifier's reply
    ireply,      \* the classifier's reply to each call
    iresult,     \* what each call returned
    ientry,      \* the audit entry inspectAndForward builds from the result
    \* handleChat's extraction alone (SpecChat)
    chat,        \* [messages, called, content, fromTool]
    \* program start (SpecBoot)
    boot,        \* [phase, found]: main's progress, the file NewStore found
    \* respondBlocked alone (SpecBlocked)
    blk,         \* [path, model, result, sent, body]
    \* what Inspect puts in the classifier request of each handler
    creq         \* [model, prompt]

storeVars == <<logs, nextID, mu>>
goVars == <<gpc, garg, gret>>
histVars == <<issued, lastID, removed, nOps>>
proxyVars == <<config, hpc, req, snap, verdict, action, resp, sent, ncls, nbk, served>>
cfgVars == <<file, lastSet, got, prompt>>
inspVars == <<ireply, iresult, ientry>>
moreVars == <<chat, boot, blk, creq>>
otherVars == <<cfgVars, inspVars, moreVars>>
vars == <<storeVars, goVars, histVars, proxyVars, otherVars>>

Goroutines == {"g1", "g2"}
NoOne == "none"
NoRet == "noret"

(***************************************************************************)
(* Store: pure parts of the operations                                      *)
(***************************************************************************)
\* An audit entry as the proxy hands it to AddLog (ID not yet assigned).
ProbeEntry ==
    [ID |-> 0, RiskLevel |-> "safe", Score |-> 0, Action |-> "forwarded",
     InspectorModel |-> "llama3.2:3b", Req |-> 0]

Reverse(s) == [i \in 1..Len(s) |-> s[Len(s) + 1 - i]]

IDs(l) == {l[i].ID : i \in 1..Len(l)}

\* AddLog, lines 160-164: log.ID = s.nextID; s.logs = append(s.logs, log)
AppendLog(l, n, entry) == Append(l, [entry EXCEPT !.ID = n])

\* Faulty variant: the slice keeps the first maxLogs entries.
TrimLogsKeepsOldest(l) ==
    IF Len(l) > maxLogs THEN SubSeq(l, 1, maxLogs) ELSE l

\* AddLog, lines 165-167: if len(s.logs) > maxLogs { s.logs = s.logs[len-maxLogs:] }
TrimLogs(l) ==
    IF Len(l) > maxLogs THEN SubSeq(l, Len(l) - maxLogs + 1, Len(l)) ELSE l

\* GetLogs, lines 175-179: result[len-1-i] = l
CopyReversed(l) == Reverse(l)

\* DeleteLog, lines 186-192: index of the first entry with the id, 0 if none
FindLog(l, id) ==
    IF \E i \in 1..Len(l) : l[i].ID = id
    THEN CHOOSE i \in 1..Len(l) :
            /\ l[i].ID = id
            /\ \A j \in 1..(i - 1) : l[j].ID # id
    ELSE 0

\* Faulty variant: s.logs[:i] without the entries after i.
RemoveAtDropsTail(l, i) == SubSeq(l, 1, i - 1)

\* DeleteLog, line 188: append(s.logs[:i], s.logs[i+1:]...)
RemoveAt(l, i) == SubSeq(l, 1, i - 1) \o SubSeq(l, i + 1, Len(l))

(***************************************************************************)
(* s.mu (sync.RWMutex)                                                      *)
(***************************************************************************)
\* Lock: no writer and no reader holds the mutex
CanLock == mu.writer = NoOne /\ mu.readers = {}

\* Faulty variant: a reader that does not wait for the writer.
CanRLockIgnoresWriter == TRUE

\* RLock: no writer holds the mutex
CanRLock == mu.writer = NoOne

Idle(g) == gpc[g] = "idle"

\* The dashboard is looking at the log: it was just started or is about full.
Busy == nextID <= Warm + 1 \/ nextID + Warm > maxLogs

(***************************************************************************)
(* Store.AddLog                                                             *)
(***************************************************************************)
AddLogLock(g) ==
    /\ Idle(g)
    /\ nextID <= MaxID
    /\ CanLock
    /\ mu' = [mu EXCEPT !.writer = g]
    /\ gpc' = [gpc EXCEPT ![g] = "add_locked"]
    /\ UNCHANGED <<logs, nextID, garg, gret, histVars>>
    /\ UNCHANGED <<proxyVars, otherVars>>

AddLogAppend(g) ==
    /\ gpc[g] = "add_locked"
    /\ logs' = AppendLog(logs, nextID, ProbeEntry)
    /\ nextID' = nextID + 1
    /\ issued' = issued \cup {nextID}
    /\ lastID' = nextID
    /\ gpc' = [gpc EXCEPT ![g] = "add_appended"]
    /\ UNCHANGED <<mu, garg, gret, removed, nOps>>
    /\ UNCHANGED <<proxyVars, otherVars>>

AddLogTrim(g) ==
    /\ gpc[g] = "add_appended"
    /\ logs' = TrimLogs(logs)
    /\ gpc' = [gpc EXCEPT ![g] = "add_trimmed"]
    /\ UNCHANGED <<nextID, mu, garg, gret, histVars>>
    /\ UNCHANGED <<proxyVars, otherVars>>

AddLogUnlock(g) ==
    /\ gpc[g] = "add_trimmed"
    /\ mu' = [mu EXCEPT !.writer = NoOne]
    /\ gpc' = [gpc EXCEPT ![g] = "idle"]
    /\ UNCHANGED <<logs, nextID, garg, gret, histVars>>
    /\ UNCHANGED <<proxyVars, otherVars>>

(***************************************************************************)
(* Store.GetLogs                                                            *)
(***************************************************************************)
GetLogsRLock(g) ==
    /\ Idle(g)
    /\ Busy
    /\ CanRLock
    /\ mu' = [mu EXCEPT !.readers = @ \cup {g}]
    /\ gpc' = [gpc EXCEPT ![g] = "get_locked"]
    /\ UNCHANGED <<logs, nextID, garg, gret, histVars>>
    /\ UNCHANGED <<proxyVars, otherVars>>

GetLogsCopy(g) ==
    /\ gpc[g] = "get_locked"
    /\ gret' = [gret EXCEPT ![g] = CopyReversed(logs)]
    /\ gpc' = [gpc EXCEPT ![g] = "get_copied"]
    /\ UNCHANGED <<storeVars, garg, histVars>>
    /\ UNCHANGED <<proxyVars, otherVars>>

\* The deferred RUnlock runs as GetLogs returns its copy to the caller.
GetLogsRUnlock(g) ==
    /\ gpc[g] = "get_copied"
    /\ mu' = [mu EXCEPT !.readers = @ \ {g}]
    /\ gret' = [gret EXCEPT ![g] = NoRet]
    /\ gpc' = [gpc EXCEPT ![g] = "idle"]
    /\ UNCHANGED <<logs, nextID, garg, histVars>>
    /\ UNCHANGED <<proxyVars, otherVars>>

(***************************************************************************)
(* Store.DeleteLog                                                          *)
(***************************************************************************)
\* The ids the dashboard asks to delete: the oldest, the middle and the newest
\* entry, an id not assigned yet, and an id that was deleted before.
DeleteArgs ==
    {nextID} \cup removed
    \cup (IF logs = <<>> THEN {}
          ELSE {logs[1].ID, logs[(Len(logs) + 1) \div 2].ID, logs[Len(logs)].ID})

DeleteLogLock(g) ==
    /\ Idle(g)
    /\ Busy
    /\ nOps < MaxDashOps
    /\ CanLock
    /\ \E id \in DeleteArgs : garg' = [garg EXCEPT ![g] = id]
    /\ nOps' = nOps + 1
    /\ mu' = [mu EXCEPT !.writer = g]
    /\ gpc' = [gpc EXCEPT ![g] = "del_locked"]
    /\ UNCHANGED <<logs, nextID, gret, issued, lastID, removed>>
    /\ UNCHANGED <<proxyVars, otherVars>>

DeleteLogBody(g) ==
    /\ gpc[g] = "del_locked"
    /\ LET i == FindLog(logs, garg[g]) IN
        IF i # 0
        THEN /\ logs' = RemoveAt(logs, i)
             /\ gret' = [gret EXCEPT ![g] = TRUE]
             /\ removed' = removed \cup {garg[g]}
        ELSE /\ gret' = [gret EXCEPT ![g] = FALSE]
             /\ UNCHANGED <<logs, removed>>
    /\ gpc' = [gpc EXCEPT ![g] = "del_done"]
    /\ UNCHANGED <<nextID, mu, garg, issued, lastID, nOps>>
    /\ UNCHANGED <<proxyVars, otherVars>>

DeleteLogUnlock(g) ==
    /\ gpc[g] = "del_done"
    /\ mu' = [mu EXCEPT !.writer = NoOne]
    /\ gret' = [gret EXCEPT ![g] = NoRet]
    /\ garg' = [garg EXCEPT ![g] = 0]
    /\ gpc' = [gpc EXCEPT ![g] = "idle"]
    /\ UNCHANGED <<logs, nextID, histVars>>
    /\ UNCHANGED <<proxyVars, otherVars>>

(***************************************************************************)
(* Store.ClearLogs                                                          *)
(***************************************************************************)
ClearLogsLock(g) ==
    /\ Idle(g)
    /\ Busy
    /\ nOps < MaxDashOps
    /\ CanLock
    /\ nOps' = nOps + 1
    /\ mu' = [mu EXCEPT !.writer = g]
    /\ gpc' = [gpc EXCEPT ![g] = "clr_locked"]
    /\ UNCHANGED <<logs, nextID, garg, gret, issued, lastID, removed>>
    /\ UNCHANGED <<proxyVars, otherVars>>

\* Faulty variant: clearing also restarts the id counter.
ClearLogsBodyResetsID(g) ==
    /\ gpc[g] = "clr_locked"
    /\ logs' = <<>>
    /\ nextID' = 1
    /\ gpc' = [gpc EXCEPT ![g] = "clr_done"]
    /\ UNCHANGED <<mu, garg, gret, histVars>>
    /\ UNCHANGED <<proxyVars, otherVars>>

\* ClearLogs, line 198: s.logs = nil
ClearLogsBody(g) ==
    /\ gpc[g] = "clr_locked"
    /\ logs' = <<>>
    /\ gpc' = [gpc EXCEPT ![g] = "clr_done"]
    /\ UNCHANGED <<nextID, mu, garg, gret, histVars>>
    /\ UNCHANGED <<proxyVars, otherVars>>

ClearLogsUnlock(g) ==
    /\ gpc[g] = "clr_done"
    /\ mu' = [mu EXCEPT !.writer = NoOne]
    /\ gpc' = [gpc EXCEPT ![g] = "idle"]
    /\ UNCHANGED <<logs, nextID, garg, gret, histVars>>
    /\ UNCHANGED <<proxyVars, otherVars>>

(***************************************************************************)
(* Store: one call as one step, as the lock makes it                        *)
(***************************************************************************)
\* AddLog, lines 156-168
AddLog(l, n, entry) == TrimLogs(AppendLog(l, n, entry))

(***************************************************************************)
(* Store: the configuration, in memory and on disk                          *)
(***************************************************************************)
\* Config, lines 82-89. BackendURL and InspectorURL are left out: they are
\* well formed in every configuration below, so http.NewRequestWithContext
\* (forward, lines 385-389) does not fail on them.
Cfg(threshold, active, custom) ==
    [Threshold |-> threshold, InspectorModel |-> "llama3.2:3b",
     ActivePrompt |-> active, CustomPrompt |-> custom]

\* NewStore, lines 119-125: the defaults
DefaultConfig == Cfg(70, "standard", "")

\* The configurations written through SetConfig while the proxy serves (Spec).
ConfigInputs == {Cfg(t, "standard", "") : t \in {50, 150}}

\* The file at s.configPath: missing, holding a configuration as SetConfig
\* marshals it, or cut short by a write that failed half way.
AbsentFile == [state |-> "absent", cfg |-> DefaultConfig]
TruncatedFile == [state |-> "truncated", cfg |-> DefaultConfig]
ConfigFile(cfg) == [state |-> "config", cfg |-> cfg]

\* Faulty variant: a file that json.Unmarshal rejects is passed over.
NewStoreIgnoresBadFile(f) ==
    [ok |-> TRUE,
     config |-> IF f.state = "config" THEN f.cfg ELSE DefaultConfig]

\* NewStore, lines 128-135: a file that cannot be read leaves the defaults, a
\* file that json.Unmarshal rejects makes NewStore fail, any other file's
\* values are taken as they are.
NewStore(f) ==
    [ok |-> f.state # "truncated",
     config |-> IF f.state = "config" THEN f.cfg ELSE DefaultConfig]

\* What os.WriteFile (line 153) can do: write the file, fail before touching
\* it, or fail after truncating it.
WriteOutcomes == {"written", "refused", "truncated"}

WriteFile(old, cfg, outcome) ==
    IF outcome = "written" THEN ConfigFile(cfg)
    ELSE IF outcome = "truncated" THEN TruncatedFile
    ELSE old

\* SetConfig's return value, line 153: "" is nil
SetConfigErr(outcome) == IF outcome = "written" THEN "" ELSE "write failed"

\* Faulty variant: the configuration in memory is replaced only when the file
\* was written.
StoreSetConfigAfterWrite(cfg, outcome) ==
    /\ config' = (IF outcome = "written" THEN cfg ELSE config)
    /\ file' = WriteFile(file, cfg, outcome)

\* SetConfig, lines 144-154, one step under s.mu: s.config = cfg, then the
\* file is written
StoreSetConfig(cfg, outcome) ==
    /\ config' = cfg
    /\ file' = WriteFile(file, cfg, outcome)

NoSet ==
    [called |-> FALSE, cfg |-> DefaultConfig, outcome |-> "", err |-> "",
     via |-> "", status |-> 0]
NoGot == [valid |-> FALSE, cfg |-> DefaultConfig]
NoPrompt == "(not called)"

\* main has run: NewStore returned a store
Booted == [phase |-> "running", found |-> "absent"]
NoBlk ==
    [path |-> "", model |-> "", result |-> [RiskLevel |-> "", Score |-> 0, Explanation |-> ""],
     sent |-> FALSE, body |-> [model |-> ""]]
NoClsReq == [model |-> "", prompt |-> ""]

handlerVars == <<hpc, req, snap, verdict, action, resp, sent, ncls, nbk, served>>

\* handleConfig, lines 133: strconv.Atoi of the form value, its error dropped
Atoi(v) == IF v.digits THEN v.n ELSE 0

\* handleConfig, lines 134-139
ClampThreshold(t) == IF t < 0 THEN 0 ELSE IF t > 100 THEN 100 ELSE t

\* What the dashboard's users and the API's callers supply
FormValues ==
    {[digits |-> TRUE, n |-> t] : t \in {-5, 70, 150}} \cup {[digits |-> FALSE, n |-> 0]}
Selectors == {"standard", "strict", "multilingual", "custom", "paranoid", ""}
CustomTexts == {"", "custom text"}
APIConfigs == {Cfg(t, a, c) : t \in {-5, 70, 150}, a \in Selectors, c \in CustomTexts}

\* The file the program was started on: none, or one a user wrote.
StartFiles ==
    {AbsentFile, ConfigFile(Cfg(40, "strict", "")), ConfigFile(Cfg(150, "standard", ""))}

\* handleConfig, lines 130-163 (POST of the dashboard's form): the threshold is
\* clamped, SetConfig's error is dropped, the page shows GetConfig()
HandleConfigPost ==
    /\ \E v \in FormValues, a \in Selectors, c \in CustomTexts, o \in WriteOutcomes :
        LET cfg == Cfg(ClampThreshold(Atoi(v)), a, c) IN
        /\ StoreSetConfig(cfg, o)
        /\ lastSet' = [called |-> TRUE, cfg |-> cfg, outcome |-> o,
                       err |-> SetConfigErr(o), via |-> "form", status |-> 200]
    /\ got' = [valid |-> TRUE, cfg |-> config']
    /\ prompt' = NoPrompt
    /\ UNCHANGED <<storeVars, goVars, histVars, handlerVars, inspVars, moreVars>>

\* handleAPIConfig, lines 207-219 (POST): the decoded configuration goes to
\* SetConfig as it is; 500 when SetConfig returns an error
APIConfigPost(cfg, o) ==
    /\ StoreSetConfig(cfg, o)
    /\ lastSet' = [called |-> TRUE, cfg |-> cfg, outcome |-> o,
                   err |-> SetConfigErr(o), via |-> "api",
                   status |-> IF SetConfigErr(o) # "" THEN 500 ELSE 200]
    /\ got' = NoGot
    /\ prompt' = NoPrompt
    /\ UNCHANGED <<storeVars, goVars, histVars, handlerVars, inspVars, moreVars>>

HandleAPIConfigPost ==
    \E cfg \in APIConfigs, o \in WriteOutcomes : APIConfigPost(cfg, o)

\* GetConfig, lines 138-142, as handleAPIConfig's GET (lines 201-204) calls it
GetConfig ==
    /\ got' = [valid |-> TRUE, cfg |-> config]
    /\ UNCHANGED <<storeVars, goVars, histVars, proxyVars, inspVars, moreVars>>
    /\ UNCHANGED <<file, lastSet, prompt>>

(***************************************************************************)
(* Store.SetConfig and Store.GetConfig, one lock step at a time             *)
(***************************************************************************)
\* SetConfig, line 145: s.mu.Lock(), with the configuration the caller passes
SetConfigLock(g) ==
    /\ Idle(g)
    /\ CanLock
    /\ nOps < MaxDashOps
    /\ \E c \in ConfigInputs : garg' = [garg EXCEPT ![g] = c]
    /\ nOps' = nOps + 1
    /\ mu' = [mu EXCEPT !.writer = g]
    /\ gpc' = [gpc EXCEPT ![g] = "set_locked"]
    /\ UNCHANGED <<logs, nextID, gret, issued, lastID, removed>>
    /\ UNCHANGED <<proxyVars, otherVars>>

\* Faulty variant: the mutex is released as soon as s.config is assigned, and
\* the file is written without it.
SetConfigAssignUnlocks(g) ==
    /\ gpc[g] = "set_locked"
    /\ config' = garg[g]
    /\ got' = NoGot
    /\ prompt' = NoPrompt
    /\ mu' = [mu EXCEPT !.writer = NoOne]
    /\ gpc' = [gpc EXCEPT ![g] = "set_assigned"]
    /\ UNCHANGED <<logs, nextID, garg, gret, histVars, handlerVars>>
    /\ UNCHANGED <<file, lastSet, inspVars, moreVars>>

\* SetConfig, line 147: s.config = cfg
SetConfigAssign(g) ==
    /\ gpc[g] = "set_locked"
    /\ config' = garg[g]
    /\ got' = NoGot
    /\ prompt' = NoPrompt
    /\ gpc' = [gpc EXCEPT ![g] = "set_assigned"]
    /\ UNCHANGED <<storeVars, garg, gret, histVars, handlerVars>>
    /\ UNCHANGED <<file, lastSet, inspVars, moreVars>>

\* SetConfig, lines 149-153: the configuration is marshalled and written, with
\* one of the given outcomes of os.WriteFile
SetConfigWriteWith(g, outcomes) ==
    /\ gpc[g] = "set_assigned"
    /\ \E o \in outcomes :
        /\ file' = WriteFile(file, garg[g], o)
        /\ gret' = [gret EXCEPT ![g] = o]
    /\ gpc' = [gpc EXCEPT ![g] = "set_written"]
    /\ UNCHANGED <<storeVars, garg, histVars, proxyVars>>
    /\ UNCHANGED <<lastSet, got, prompt, inspVars, moreVars>>

\* SetConfig returns WriteFile's error; the deferred Unlock runs
SetConfigUnlock(g) ==
    /\ gpc[g] = "set_written"
    /\ mu' = [mu EXCEPT !.writer = NoOne]
    /\ lastSet' = [called |-> TRUE, cfg |-> garg[g], outcome |-> gret[g],
                   err |-> SetConfigErr(gret[g]), via |-> "api",
                   status |-> IF SetConfigErr(gret[g]) # "" THEN 500 ELSE 200]
    /\ garg' = [garg EXCEPT ![g] = 0]
    /\ gret' = [gret EXCEPT ![g] = NoRet]
    /\ gpc' = [gpc EXCEPT ![g] = "idle"]
    /\ UNCHANGED <<logs, nextID, histVars, proxyVars>>
    /\ UNCHANGED <<file, got, prompt, inspVars, moreVars>>

\* GetConfig, line 139: s.mu.RLock()
GetConfigRLock(g) ==
    /\ Idle(g)
    /\ CanRLock
    /\ mu' = [mu EXCEPT !.readers = @ \cup {g}]
    /\ gpc' = [gpc EXCEPT ![g] = "cfg_locked"]
    /\ UNCHANGED <<logs, nextID, garg, gret, histVars>>
    /\ UNCHANGED <<proxyVars, otherVars>>

\* GetConfig, lines 140-141: s.config is returned and the deferred RUnlock runs
GetConfigRUnlock(g) ==
    /\ gpc[g] = "cfg_locked"
    /\ got' = [valid |-> TRUE, cfg |-> config]
    /\ mu' = [mu EXCEPT !.readers = @ \ {g}]
    /\ gpc' = [gpc EXCEPT ![g] = "idle"]
    /\ UNCHANGED <<logs, nextID, garg, gret, histVars, proxyVars>>
    /\ UNCHANGED <<file, lastSet, prompt, inspVars, moreVars>>

(***************************************************************************)
(* main: the program starts                                                 *)
(***************************************************************************)
\* The file main may find at -config: none, one holding a configuration, one
\* that is not valid JSON.
BootFiles == StartFiles \cup {TruncatedFile}

\* INSPECTOR_MODEL in the environment: "" is unset
EnvModels == {"", "qwen3:4b"}

\* main, lines 17-21: NewStore, and log.Fatalf when it fails
MainNewStore ==
    /\ boot.phase = "starting"
    /\ IF NewStore(file).ok
       THEN /\ config' = NewStore(file).config
            /\ boot' = [phase |-> "loaded", found |-> file.state]
       ELSE /\ config' = config
            /\ boot' = [phase |-> "failed", found |-> file.state]
    /\ UNCHANGED <<storeVars, goVars, histVars, handlerVars, cfgVars, inspVars>>
    /\ UNCHANGED <<chat, blk, creq>>

\* main, lines 23-39: a value in the environment replaces the field and the
\* configuration is saved with SetConfig, whose error is dropped
MainEnvOverrides ==
    /\ boot.phase = "loaded"
    /\ boot' = [boot EXCEPT !.phase = "running"]
    /\ \E env \in EnvModels, o \in WriteOutcomes :
        IF env = ""
        THEN /\ o = "written"
             /\ UNCHANGED <<config, file, lastSet>>
        ELSE LET cfg == [config EXCEPT !.InspectorModel = env] IN
             /\ StoreSetConfig(cfg, o)
             /\ lastSet' = [called |-> TRUE, cfg |-> cfg, outcome |-> o,
                            err |-> SetConfigErr(o), via |-> "env", status |-> 0]
    /\ UNCHANGED <<storeVars, goVars, histVars, handlerVars, inspVars>>
    /\ UNCHANGED <<got, prompt, chat, blk, creq>>

\* SetConfig, lines 144-154, called while the proxy serves requests; the disk
\* takes the write
SetConfig ==
    \E c \in ConfigInputs :
        /\ c # config
        /\ APIConfigPost(c, "written")

(***************************************************************************)
(* Classifier client: Inspector.Inspect                                     *)
(***************************************************************************)
\* What the classifier endpoint does with Inspect's POST:
\*   transport  client.Post fails                          (lines 115-118)
\*   status     a reply whose status is not 200            (lines 121-124)
\*   envelope   a 200 reply whose body does not decode     (lines 131-133)
\*   content    a 200 reply with message.content, whose text is
\*                json      a JSON object; risk "" is an object without
\*                          risk_level, score 0 one without score ({} has both)
\*                quoted    a JSON object whose score is a quoted number
\*                wrapped   a JSON object with other text before and after it
\*                fields    text with "risk_level": ... and "score": ... in it
\*                          that is not a JSON object, braces or not
\*                text      text with none of this
\*              json.Unmarshal (line 135) accepts the form json alone.
Reply(kind, form, risk, score) ==
    [kind |-> kind, form |-> form, risk |-> risk, score |-> score]

Replies ==
    { Reply("transport", "", "", 0),
      Reply("status", "", "", 0),
      Reply("envelope", "", "", 0),
      Reply("content", "text", "", 0),
      Reply("content", "json", "safe", 50),
      Reply("content", "json", "Malicious", 70),
      Reply("content", "json", "high", 120) }

\* strings.ToLower on the labels the replies carry
ToLower(str) ==
    IF str = "Malicious" THEN "malicious"
    ELSE IF str = "SAFE" THEN "safe"
    ELSE str

\* Inspect, lines 140-144: normalize risk level
NormalizeRisk(risk) ==
    LET r == ToLower(risk) IN
    IF r # "safe" /\ r # "suspicious" /\ r # "malicious" THEN "suspicious" ELSE r

\* Faulty variant: a negative score is kept.
ClampScoreUpperOnly(score) == IF score > 100 THEN 100 ELSE score

\* Inspect, lines 146-152: clamp score
ClampScore(score) ==
    IF score < 0 THEN 0 ELSE IF score > 100 THEN 100 ELSE score

\* Inspect's (result, err) pair: err is "" for nil, result is nil with an error
NoVerdict == [err |-> "", RiskLevel |-> "", Score |-> 0]
InspectError(msg) == [err |-> msg, RiskLevel |-> "", Score |-> 0]

\* Faulty variant: content that does not parse yields a default safe verdict.
InspectDefaultsOnBadContent(reply) ==
    IF reply.kind = "transport" THEN InspectError("inspector request")
    ELSE IF reply.kind = "status" THEN InspectError("inspector returned")
    ELSE IF reply.kind = "envelope" THEN InspectError("decode inspector response")
    ELSE IF reply.form # "json" THEN [err |-> "", RiskLevel |-> "safe", Score |-> 0]
    ELSE [err |-> "",
          RiskLevel |-> NormalizeRisk(reply.risk),
          Score |-> ClampScore(reply.score)]

\* Inspect, lines 115-154
Inspect(reply) ==
    IF reply.kind = "transport" THEN InspectError("inspector request")
    ELSE IF reply.kind = "status" THEN InspectError("inspector returned")
    ELSE IF reply.kind = "envelope" THEN InspectError("decode inspector response")
    ELSE IF reply.form # "json" THEN InspectError("parse inspection result")
    ELSE [err |-> "",
          RiskLevel |-> NormalizeRisk(reply.risk),
          Score |-> ClampScore(reply.score)]

(***************************************************************************)
(* Classifier client: the system prompt                                     *)
(***************************************************************************)
\* presetPrompts, lines 12-66: the three instruction texts
presetPrompts ==
    [standard |-> "standard preset text", strict |-> "strict preset text",
     multilingual |-> "multilingual preset text"]

\* Faulty variant: the custom text is taken without looking at it.
getSystemPromptAnyCustom(cfg) ==
    IF cfg.ActivePrompt = "custom" THEN cfg.CustomPrompt
    ELSE IF cfg.ActivePrompt \in DOMAIN presetPrompts
         THEN presetPrompts[cfg.ActivePrompt]
         ELSE presetPrompts["standard"]

\* getSystemPrompt, lines 86-95, on the configuration GetConfig returned
getSystemPrompt(cfg) ==
    IF cfg.ActivePrompt = "custom" /\ cfg.CustomPrompt # "" THEN cfg.CustomPrompt
    ELSE IF cfg.ActivePrompt \in DOMAIN presetPrompts
         THEN presetPrompts[cfg.ActivePrompt]
         ELSE presetPrompts["standard"]

\* Inspect, line 109: the system message of the classifier request
SystemMessage ==
    /\ prompt' = getSystemPrompt(config)
    /\ UNCHANGED <<storeVars, goVars, histVars, proxyVars, inspVars, moreVars>>
    /\ UNCHANGED <<file, lastSet, got>>

(***************************************************************************)
(* Proxy                                                                    *)
(***************************************************************************)
Handlers == {"h1", "h2"}

Paths == {"/api/chat", "/api/generate", "/api/tags"}

\* r.Method: ServeHTTP never reads it, forward (line 385) copies it
Methods == {"POST", "GET"}

\* Request bodies: one that json.Unmarshal rejects, one JSON object.
Message(role, content) == [role |-> role, content |-> content]

BadBody ==
    [valid |-> FALSE, model |-> "", messages |-> <<>>, prompt |-> "", system |-> ""]

OkBody ==
    [valid |-> TRUE, model |-> "qwen3",
     messages |-> <<Message("system", "s"), Message("user", "u"),
                    Message("assistant", "a"), Message("tool", "t")>>,
     prompt |-> "p", system |-> "s"]

Bodies == {BadBody, OkBody}

NoBody == "nobody"
NoReq == [n |-> 0, method |-> "", path |-> "", body |-> BadBody]
NoResp == [status |-> 0, kind |-> "none"]

\* Faulty variant: the Unmarshal error is not checked.
ParseOKIgnoresError(body) == TRUE

\* handleChat line 211, handleGenerate line 245: json.Unmarshal(body, &req)
\* returns no error
ParseOK(body) == body.valid

\* Faulty variant: every path is inspected.
InspectableAnyPath(path) == TRUE

\* ServeHTTP, lines 185-193: the two paths that are inspected
Inspectable(path) == path = "/api/chat" \/ path = "/api/generate"

\* Faulty variant: blocks only above the threshold.
DecideStrict(score, threshold) ==
    IF score > threshold THEN "blocked" ELSE "forwarded"

\* inspectAndForward, lines 285-288
Decide(score, threshold) ==
    IF score >= threshold THEN "blocked" ELSE "forwarded"

ErrorAction == "forwarded (inspection error)"

\* inspectAndForward, lines 268-278: the entry logged when Inspect failed.
\* Req is the request the entry was logged for (its Content and BackendModel).
ErrorEntry(r, c) ==
    [ID |-> 0, RiskLevel |-> "unknown", Score |-> -1, Action |-> ErrorAction,
     InspectorModel |-> c.InspectorModel, Req |-> r.n]

\* inspectAndForward, lines 290-302
VerdictEntry(r, c, v, act) ==
    [ID |-> 0, RiskLevel |-> v.RiskLevel, Score |-> v.Score, Action |-> act,
     InspectorModel |-> c.InspectorModel, Req |-> r.n]

\* forward, lines 378-385: the body of the outbound request is the bytes read
\* from the inbound one
ForwardedBody(r) == r.body

CanServe(h) == hpc[h] \in {"idle", "done"} /\ served < MaxReqs

\* A new request starts on handler h: the previous request's locals are gone.
Accept(h, r) ==
    /\ req' = [req EXCEPT ![h] = r]
    /\ served' = served + 1
    /\ verdict' = [verdict EXCEPT ![h] = NoVerdict]
    /\ action' = [action EXCEPT ![h] = ""]

\* ServeHTTP default branch, line 192: p.forward(w, r, nil), for a request
\* whose method is one of ms
ServePassThroughBy(h, ms) ==
    /\ CanServe(h)
    /\ \E method \in ms, path \in Paths, body \in Bodies :
        /\ ~Inspectable(path)
        /\ Accept(h, [n |-> served + 1, method |-> method, path |-> path,
                      body |-> body])
        /\ sent' = [sent EXCEPT ![h] = body]
    /\ hpc' = [hpc EXCEPT ![h] = "backend"]
    /\ nbk' = [nbk EXCEPT ![h] = 1]
    /\ ncls' = [ncls EXCEPT ![h] = 0]
    /\ resp' = [resp EXCEPT ![h] = NoResp]
    /\ snap' = [snap EXCEPT ![h] = DefaultConfig]
    /\ UNCHANGED <<storeVars, goVars, histVars, config, otherVars>>

\* handleChat lines 211-214, handleGenerate lines 245-248: invalid JSON
ServeInvalidBy(h, ms) ==
    /\ CanServe(h)
    /\ \E method \in ms, path \in Paths, body \in Bodies :
        /\ Inspectable(path)
        /\ ~ParseOK(body)
        /\ Accept(h, [n |-> served + 1, method |-> method, path |-> path,
                      body |-> body])
    /\ hpc' = [hpc EXCEPT ![h] = "done"]
    /\ resp' = [resp EXCEPT ![h] = [status |-> 400, kind |-> "error"]]
    /\ nbk' = [nbk EXCEPT ![h] = 0]
    /\ ncls' = [ncls EXCEPT ![h] = 0]
    /\ sent' = [sent EXCEPT ![h] = NoBody]
    /\ snap' = [snap EXCEPT ![h] = DefaultConfig]
    /\ UNCHANGED <<storeVars, goVars, histVars, config, otherVars>>

\* handleChat / handleGenerate with a JSON body, then inspectAndForward lines
\* 259-263: the configuration snapshot, and Inspect's POST to the classifier
ServeInspectBy(h, ms) ==
    /\ CanServe(h)
    /\ \E method \in ms, path \in Paths, body \in Bodies :
        /\ Inspectable(path)
        /\ ParseOK(body)
        /\ Accept(h, [n |-> served + 1, method |-> method, path |-> path,
                      body |-> body])
    /\ snap' = [snap EXCEPT ![h] = config]
    /\ hpc' = [hpc EXCEPT ![h] = "classifier"]
    /\ ncls' = [ncls EXCEPT ![h] = 1]
    /\ nbk' = [nbk EXCEPT ![h] = 0]
    /\ resp' = [resp EXCEPT ![h] = NoResp]
    /\ sent' = [sent EXCEPT ![h] = NoBody]
    /\ UNCHANGED <<storeVars, goVars, histVars, config, otherVars>>

\* The three ways into ServeHTTP for the API's clients, which POST
ServePassThrough(h) == ServePassThroughBy(h, {"POST"})
ServeInvalid(h) == ServeInvalidBy(h, {"POST"})
ServeInspect(h) == ServeInspectBy(h, {"POST"})

\* p.store.AddLog(entry) as one step of a handler
StoreAddLog(entry) ==
    /\ logs' = AddLog(logs, nextID, entry)
    /\ nextID' = nextID + 1
    /\ issued' = issued \cup {nextID}
    /\ lastID' = nextID
    /\ UNCHANGED <<mu, goVars, removed, nOps>>

\* forward, lines 371-398: the outbound request is built and client.Do starts
StartForward(h) ==
    /\ sent' = [sent EXCEPT ![h] = ForwardedBody(req[h])]
    /\ nbk' = [nbk EXCEPT ![h] = @ + 1]
    /\ hpc' = [hpc EXCEPT ![h] = "backend"]

\* Faulty variant: a failed classifier call is made once more.
InspectFailedRetries(h) ==
    /\ hpc[h] = "classifier"
    /\ \E reply \in Replies :
        /\ Inspect(reply).err # ""
        /\ verdict' = [verdict EXCEPT ![h] = Inspect(reply)]
    /\ ncls' = [ncls EXCEPT ![h] = @ + 1]
    /\ UNCHANGED <<storeVars, goVars, histVars>>
    /\ UNCHANGED <<config, otherVars, hpc, req, snap, action, resp, sent, nbk, served>>

\* Inspect returned an error: inspectAndForward lines 266-280
InspectFailed(h) ==
    /\ hpc[h] = "classifier"
    /\ \E reply \in Replies :
        /\ Inspect(reply).err # ""
        /\ verdict' = [verdict EXCEPT ![h] = Inspect(reply)]
    /\ action' = [action EXCEPT ![h] = ErrorAction]
    /\ StoreAddLog(ErrorEntry(req[h], snap[h]))
    /\ StartForward(h)
    /\ UNCHANGED <<config, otherVars, req, snap, resp, ncls, served>>

\* Inspect returned a verdict at or over the threshold: lines 285-310
InspectBlocked(h) ==
    /\ hpc[h] = "classifier"
    /\ \E reply \in Replies :
        LET v == Inspect(reply) IN
        /\ v.err = ""
        /\ Decide(v.Score, snap[h].Threshold) = "blocked"
        /\ verdict' = [verdict EXCEPT ![h] = v]
        /\ StoreAddLog(VerdictEntry(req[h], snap[h], v, "blocked"))
    /\ action' = [action EXCEPT ![h] = "blocked"]
    /\ resp' = [resp EXCEPT ![h] = [status |-> 200, kind |-> "blocked"]]
    /\ hpc' = [hpc EXCEPT ![h] = "done"]
    /\ UNCHANGED <<config, otherVars, req, snap, sent, ncls, nbk, served>>

\* Inspect returned a verdict under the threshold: lines 285-314
InspectPassed(h) ==
    /\ hpc[h] = "classifier"
    /\ \E reply \in Replies :
        LET v == Inspect(reply) IN
        /\ v.err = ""
        /\ Decide(v.Score, snap[h].Threshold) = "forwarded"
        /\ verdict' = [verdict EXCEPT ![h] = v]
    /\ action' = [action EXCEPT ![h] = "forwarded"]
    /\ StartForward(h)
    /\ UNCHANGED <<storeVars, goVars, histVars, config, otherVars, req, snap, resp, ncls, served>>

\* forward, lines 398-416, for what the backend does: a response that is copied
\* to the caller, or a transport failure answered with 502
BackendResponse(ok) ==
    IF ok THEN [status |-> 200, kind |-> "backend"]
    ELSE [status |-> 502, kind |-> "error"]

\* forward returns to ServeHTTP (line 192) or to inspectAndForward's error
\* branch (lines 280-282): nothing more is logged
BackendReturnsUnlogged(h) ==
    /\ hpc[h] = "backend"
    /\ action[h] # "forwarded"
    /\ \E ok \in BOOLEAN : resp' = [resp EXCEPT ![h] = BackendResponse(ok)]
    /\ hpc' = [hpc EXCEPT ![h] = "done"]
    /\ UNCHANGED <<storeVars, goVars, histVars>>
    /\ UNCHANGED <<config, otherVars, req, snap, verdict, action, sent, ncls, nbk, served>>

\* Faulty variant: returns without logging when the backend call failed.
BackendReturnsLoggedOnSuccess(h) ==
    /\ hpc[h] = "backend"
    /\ action[h] = "forwarded"
    /\ \E ok \in BOOLEAN :
        /\ resp' = [resp EXCEPT ![h] = BackendResponse(ok)]
        /\ IF ok THEN StoreAddLog(VerdictEntry(req[h], snap[h], verdict[h], action[h]))
                 ELSE UNCHANGED <<storeVars, goVars, histVars>>
    /\ hpc' = [hpc EXCEPT ![h] = "done"]
    /\ UNCHANGED <<config, otherVars, req, snap, verdict, action, sent, ncls, nbk, served>>

\* forward returns to inspectAndForward, lines 314-321: the entry is logged
BackendReturnsLogged(h) ==
    /\ hpc[h] = "backend"
    /\ action[h] = "forwarded"
    /\ \E ok \in BOOLEAN : resp' = [resp EXCEPT ![h] = BackendResponse(ok)]
    /\ StoreAddLog(VerdictEntry(req[h], snap[h], verdict[h], action[h]))
    /\ hpc' = [hpc EXCEPT ![h] = "done"]
    /\ UNCHANGED <<config, otherVars, req, snap, verdict, action, sent, ncls, nbk, served>>

(***************************************************************************)
(* The proxy, one store call at a time                                      *)
(*                                                                          *)
(* A handler's position between its calls of the store:                     *)
(*   snap    inspectAndForward line 260, cfg := p.store.GetConfig()         *)
(*   icfg    Inspect line 98, cfg := ins.store.GetConfig()                  *)
(*   pcfg    getSystemPrompt line 87, called from Inspect line 103          *)
(*   log     p.store.AddLog(logEntry), lines 279, 305 and 321               *)
(*   fcfg    forward line 372, cfg := p.store.GetConfig()                   *)
(* with _r appended while it holds the read lock and _w the write lock;     *)
(* "classifier" and "backend" are the two network calls in flight.          *)
(***************************************************************************)
\* net/http runs every request on a goroutine of its own: a handler here
\* serves one request.  One path that is inspected and one that is not
\* (ServeHTTP, lines 185-193); handleGenerate reaches inspectAndForward as
\* handleChat does.  The classifier either fails or answers with a verdict.

\* handleChat / handleGenerate with a JSON body call inspectAndForward
AcceptInspected(h) ==
    /\ hpc[h] = "idle" /\ served < MaxReqs
    /\ \E path \in {"/api/chat", "/api/tags"}, body \in {OkBody} :
        /\ Inspectable(path)
        /\ ParseOK(body)
        /\ Accept(h, [n |-> served + 1, method |-> "POST", path |-> path,
                      body |-> body])
    /\ hpc' = [hpc EXCEPT ![h] = "snap"]
    /\ snap' = [snap EXCEPT ![h] = DefaultConfig]
    /\ creq' = [creq EXCEPT ![h] = NoClsReq]
    /\ ncls' = [ncls EXCEPT ![h] = 0]
    /\ nbk' = [nbk EXCEPT ![h] = 0]
    /\ resp' = [resp EXCEPT ![h] = NoResp]
    /\ sent' = [sent EXCEPT ![h] = NoBody]
    /\ UNCHANGED <<storeVars, goVars, histVars, config, cfgVars, inspVars>>
    /\ UNCHANGED <<chat, boot, blk>>

\* ServeHTTP default branch, line 192, calls forward
AcceptPassThrough(h) ==
    /\ hpc[h] = "idle" /\ served < MaxReqs
    /\ \E path \in {"/api/chat", "/api/tags"}, body \in {OkBody} :
        /\ ~Inspectable(path)
        /\ Accept(h, [n |-> served + 1, method |-> "POST", path |-> path,
                      body |-> body])
    /\ hpc' = [hpc EXCEPT ![h] = "fcfg"]
    /\ snap' = [snap EXCEPT ![h] = DefaultConfig]
    /\ creq' = [creq EXCEPT ![h] = NoClsReq]
    /\ ncls' = [ncls EXCEPT ![h] = 0]
    /\ nbk' = [nbk EXCEPT ![h] = 0]
    /\ resp' = [resp EXCEPT ![h] = NoResp]
    /\ sent' = [sent EXCEPT ![h] = NoBody]
    /\ UNCHANGED <<storeVars, goVars, histVars, config, cfgVars, inspVars>>
    /\ UNCHANGED <<chat, boot, blk>>

\* GetConfig, line 139, called by the handler: s.mu.RLock()
HandlerRLock(h) ==
    /\ hpc[h] \in {"snap", "icfg", "pcfg", "fcfg"}
    /\ CanRLock
    /\ mu' = [mu EXCEPT !.readers = @ \cup {h}]
    /\ hpc' = [hpc EXCEPT ![h] = @ \o "_r"]
    /\ UNCHANGED <<logs, nextID, goVars, histVars, config, otherVars>>
    /\ UNCHANGED <<req, snap, verdict, action, resp, sent, ncls, nbk, served>>

\* Faulty variant: the read lock is kept when GetConfig returns.
SnapshotReturnsKeepsLock(h) ==
    /\ hpc[h] = "snap_r"
    /\ snap' = [snap EXCEPT ![h] = config]
    /\ hpc' = [hpc EXCEPT ![h] = "icfg"]
    /\ UNCHANGED <<storeVars, goVars, histVars, config, otherVars>>
    /\ UNCHANGED <<req, verdict, action, resp, sent, ncls, nbk, served>>

\* inspectAndForward, line 260: GetConfig returns the snapshot
SnapshotReturns(h) ==
    /\ hpc[h] = "snap_r"
    /\ snap' = [snap EXCEPT ![h] = config]
    /\ mu' = [mu EXCEPT !.readers = @ \ {h}]
    /\ hpc' = [hpc EXCEPT ![h] = "icfg"]
    /\ UNCHANGED <<logs, nextID, goVars, histVars, config, otherVars>>
    /\ UNCHANGED <<req, verdict, action, resp, sent, ncls, nbk, served>>

\* Inspect, lines 98-101: GetConfig returns, its InspectorModel is the
\* request's model
InspectConfigReturns(h) ==
    /\ hpc[h] = "icfg_r"
    /\ creq' = [creq EXCEPT ![h] = [model |-> config.InspectorModel, prompt |-> ""]]
    /\ mu' = [mu EXCEPT !.readers = @ \ {h}]
    /\ hpc' = [hpc EXCEPT ![h] = "pcfg"]
    /\ UNCHANGED <<logs, nextID, goVars, histVars, config, cfgVars, inspVars>>
    /\ UNCHANGED <<chat, boot, blk>>
    /\ UNCHANGED <<req, snap, verdict, action, resp, sent, ncls, nbk, served>>

\* getSystemPrompt, lines 87-94, then Inspect lines 110-115: the request is
\* complete and client.Post starts
PromptConfigReturns(h) ==
    /\ hpc[h] = "pcfg_r"
    /\ creq' = [creq EXCEPT ![h].prompt = getSystemPrompt(config)]
    /\ mu' = [mu EXCEPT !.readers = @ \ {h}]
    /\ hpc' = [hpc EXCEPT ![h] = "classifier"]
    /\ ncls' = [ncls EXCEPT ![h] = @ + 1]
    /\ UNCHANGED <<logs, nextID, goVars, histVars, config, cfgVars, inspVars>>
    /\ UNCHANGED <<chat, boot, blk>>
    /\ UNCHANGED <<req, snap, verdict, action, resp, sent, nbk, served>>

\* Inspect returns; inspectAndForward lines 266 and 285-288 choose the action
ClassifierReturns(h) ==
    /\ hpc[h] = "classifier"
    /\ \E reply \in {Reply("transport", "", "", 0),
                     Reply("content", "json", "safe", 50)} :
        LET v == Inspect(reply)
            act == IF v.err # "" THEN ErrorAction
                   ELSE Decide(v.Score, snap[h].Threshold)
        IN  /\ verdict' = [verdict EXCEPT ![h] = v]
            /\ action' = [action EXCEPT ![h] = act]
            /\ hpc' = [hpc EXCEPT ![h] = IF act = "forwarded" THEN "fcfg" ELSE "log"]
    /\ UNCHANGED <<storeVars, goVars, histVars, config, otherVars>>
    /\ UNCHANGED <<req, snap, resp, sent, ncls, nbk, served>>

\* AddLog, line 157, called by the handler: s.mu.Lock()
HandlerLock(h) ==
    /\ hpc[h] = "log"
    /\ CanLock
    /\ mu' = [mu EXCEPT !.writer = h]
    /\ hpc' = [hpc EXCEPT ![h] = "log_w"]
    /\ UNCHANGED <<logs, nextID, goVars, histVars, config, otherVars>>
    /\ UNCHANGED <<req, snap, verdict, action, resp, sent, ncls, nbk, served>>

\* AddLog, lines 160-168, then what follows it: forward on the error branch
\* (line 280), respondBlocked on the blocked one (line 309), the return of
\* inspectAndForward after a forward (line 321)
HandlerAddLogReturns(h) ==
    /\ hpc[h] = "log_w"
    /\ LET entry == IF action[h] = ErrorAction
                    THEN ErrorEntry(req[h], snap[h])
                    ELSE VerdictEntry(req[h], snap[h], verdict[h], action[h])
       IN  logs' = AddLog(logs, nextID, entry)
    /\ nextID' = nextID + 1
    /\ issued' = issued \cup {nextID}
    /\ lastID' = nextID
    /\ mu' = [mu EXCEPT !.writer = NoOne]
    /\ hpc' = [hpc EXCEPT ![h] = IF action[h] = ErrorAction THEN "fcfg" ELSE "done"]
    /\ resp' = [resp EXCEPT ![h] = IF action[h] = "blocked"
                                    THEN [status |-> 200, kind |-> "blocked"]
                                    ELSE @]
    /\ UNCHANGED <<goVars, removed, nOps, config, otherVars>>
    /\ UNCHANGED <<req, snap, verdict, action, sent, ncls, nbk, served>>

\* forward, lines 372-398: GetConfig returns, the outbound request is built
\* and client.Do starts
ForwardConfigReturns(h) ==
    /\ hpc[h] = "fcfg_r"
    /\ mu' = [mu EXCEPT !.readers = @ \ {h}]
    /\ sent' = [sent EXCEPT ![h] = ForwardedBody(req[h])]
    /\ nbk' = [nbk EXCEPT ![h] = @ + 1]
    /\ hpc' = [hpc EXCEPT ![h] = "backend"]
    /\ UNCHANGED <<logs, nextID, goVars, histVars, config, otherVars>>
    /\ UNCHANGED <<req, snap, verdict, action, resp, ncls, served>>

\* forward, lines 398-416: the backend answered or failed; inspectAndForward
\* logs the entry of a request that was classified and forwarded
BackendReturns(h) ==
    /\ hpc[h] = "backend"
    /\ \E ok \in BOOLEAN : resp' = [resp EXCEPT ![h] = BackendResponse(ok)]
    /\ hpc' = [hpc EXCEPT ![h] = IF action[h] = "forwarded" THEN "log" ELSE "done"]
    /\ UNCHANGED <<storeVars, goVars, histVars, config, otherVars>>
    /\ UNCHANGED <<req, snap, verdict, action, sent, ncls, nbk, served>>

\* The configurations the dashboard switches between while requests are
\* served: the defaults and one that differs in model, threshold and prompt.
SnapshotConfigs ==
    {DefaultConfig,
     [Threshold |-> 50, InspectorModel |-> "qwen3:4b",
      ActivePrompt |-> "strict", CustomPrompt |-> ""]}

\* handleAPIConfig, lines 207-219, as one step between the handlers' steps:
\* SetConfig takes the write lock, which no reader or writer may hold, and
\* keeps it from its first line to its last
SetConfigBetween ==
    /\ CanLock
    /\ \E c \in SnapshotConfigs :
        /\ c # config
        /\ APIConfigPost(c, "written")

(***************************************************************************)
(* handleChat: the content that is inspected                                *)
(***************************************************************************)
RECURSIVE Join(_, _)
\* strings.Join(parts, sep), line 227
Join(parts, sep) ==
    IF parts = <<>> THEN ""
    ELSE IF Len(parts) = 1 THEN parts[1]
    ELSE parts[1] \o sep \o Join(Tail(parts), sep)

RECURSIVE ChatPartsWithoutTool(_)
\* Faulty variant: the content of tool messages is left out.
ChatPartsWithoutTool(messages) ==
    IF messages = <<>> THEN <<>>
    ELSE LET msg == Head(messages) IN
         (IF msg.role = "user" \/ msg.role = "system" THEN <<msg.content>> ELSE <<>>)
            \o ChatPartsWithoutTool(Tail(messages))

RECURSIVE ChatParts(_)
\* handleChat, lines 217-226: the loop over req.Messages that fills parts
ChatParts(messages) ==
    IF messages = <<>> THEN <<>>
    ELSE LET msg == Head(messages) IN
         (IF msg.role = "user" \/ msg.role = "system" THEN <<msg.content>>
          ELSE IF msg.role = "tool" THEN <<msg.content>>
          ELSE <<>>)
            \o ChatParts(Tail(messages))

\* handleChat, lines 218-225: fromTool
ChatFromTool(messages) == \E i \in 1..Len(messages) : messages[i].role = "tool"

\* The message lists of a chat request's body
ChatRoles == {"system", "user", "assistant", "tool"}
ChatTexts == {"a", "b"}
ChatMessages == {Message(r, t) : r \in ChatRoles, t \in ChatTexts}
MessageLists == UNION {[1..n -> ChatMessages] : n \in 0..MaxMsgs}

NoChat == [messages |-> <<>>, called |-> FALSE, content |-> "", fromTool |-> FALSE]

\* handleChat, lines 216-229: content and fromTool as inspectAndForward gets them
HandleChatExtract ==
    /\ ~chat.called
    /\ chat' = [chat EXCEPT !.called = TRUE,
                            !.content = Join(ChatParts(chat.messages), "\n\n"),
                            !.fromTool = ChatFromTool(chat.messages)]
    /\ UNCHANGED <<storeVars, goVars, histVars, proxyVars, cfgVars, inspVars>>
    /\ UNCHANGED <<boot, blk, creq>>

(***************************************************************************)
(* respondBlocked: the response written for a blocked request               *)
(***************************************************************************)
\* respondBlocked, line 329: the fmt.Sprintf of the message
BlockedMessage(result) ==
    "[BLOCKED by AI Context Firewall] Risk score: " \o ToString(result.Score)
        \o "/100 (" \o result.RiskLevel \o "). " \o result.Explanation

\* Faulty variant: the chat shape is written whatever the path.
respondBlockedAlwaysChat(path, model, result) ==
    [model |-> model, created_at |-> "0001-01-01T00:00:00Z",
     message |-> [role |-> "assistant", content |-> BlockedMessage(result)],
     done |-> TRUE, done_reason |-> "blocked"]

\* respondBlocked, lines 327-355: the JSON object that is encoded
respondBlocked(path, model, result) ==
    IF path = "/api/chat"
    THEN [model |-> model, created_at |-> "0001-01-01T00:00:00Z",
          message |-> [role |-> "assistant", content |-> BlockedMessage(result)],
          done |-> TRUE, done_reason |-> "blocked"]
    ELSE [model |-> model, created_at |-> "0001-01-01T00:00:00Z",
          response |-> BlockedMessage(result),
          done |-> TRUE, done_reason |-> "blocked"]

\* The blocked requests: the endpoint, the model the caller named, the verdict
BlockedInputs ==
    {[NoBlk EXCEPT !.path = p, !.model = m,
                   !.result = [RiskLevel |-> l, Score |-> n, Explanation |-> e]] :
        p \in {"/api/chat", "/api/generate"}, m \in {"qwen3", "llama3"},
        l \in {"safe", "suspicious", "malicious"}, n \in {0, 55, 70, 100},
        e \in {"", "asks to ignore previous instructions"}}

\* inspectAndForward, line 309: p.respondBlocked(w, r, result, model)
RespondBlocked ==
    /\ ~blk.sent
    /\ blk' = [blk EXCEPT !.sent = TRUE,
                          !.body = respondBlocked(blk.path, blk.model, blk.result)]
    /\ UNCHANGED <<storeVars, goVars, histVars, proxyVars, cfgVars, inspVars>>
    /\ UNCHANGED <<chat, boot, creq>>

(***************************************************************************)
(* Inspect on every kind of reply                                           *)
(***************************************************************************)
Calls == {"first", "second"}

Labels == {"safe", "SAFE", "suspicious", "malicious", "Malicious", "high", ""}
RawScores == {-20, 0, 40, 70, 100, 120}
ContentForms == {"json", "quoted", "wrapped", "fields"}

AllReplies ==
    { Reply("transport", "", "", 0),
      Reply("status", "", "", 0),
      Reply("envelope", "", "", 0),
      Reply("content", "text", "", 0) }
    \cup { Reply("content", f, l, n) : f \in ContentForms, l \in Labels, n \in RawScores }

NoEntry ==
    [ID |-> 0, RiskLevel |-> "", Score |-> 0, Action |-> "",
     InspectorModel |-> "", Req |-> 0]

\* inspectAndForward, lines 263-302: the audit entry built from what Inspect
\* returned, under the default configuration
EntryFor(c, v) ==
    IF v.err # ""
    THEN ErrorEntry([n |-> 1], DefaultConfig)
    ELSE VerdictEntry([n |-> 1], DefaultConfig, v,
                      Decide(v.Score, DefaultConfig.Threshold))

\* One call of Inspect returns, and inspectAndForward builds its entry
InspectReturns(c) ==
    /\ iresult[c] = NoVerdict
    /\ iresult' = [iresult EXCEPT ![c] = Inspect(ireply[c])]
    /\ ientry' = [ientry EXCEPT ![c] = EntryFor(c, Inspect(ireply[c]))]
    /\ UNCHANGED <<storeVars, goVars, histVars, proxyVars, cfgVars, moreVars, ireply>>

InitProxy ==
    /\ hpc = [h \in Handlers |-> "idle"]
    /\ req = [h \in Handlers |-> NoReq]
    /\ snap = [h \in Handlers |-> DefaultConfig]
    /\ verdict = [h \in Handlers |-> NoVerdict]
    /\ action = [h \in Handlers |-> ""]
    /\ resp = [h \in Handlers |-> NoResp]
    /\ sent = [h \in Handlers |-> NoBody]
    /\ ncls = [h \in Handlers |-> 0]
    /\ nbk = [h \in Handlers |-> 0]
    /\ served = 0
    /\ creq = [h \in Handlers |-> NoClsReq]

(***************************************************************************)
(* Specifications                                                           *)
(***************************************************************************)
\* NewStore, lines 116-126: nextID 1, no logs, the mutex unlocked.
InitStore ==
    /\ logs = <<>>
    /\ nextID = 1
    /\ mu = [writer |-> NoOne, readers |-> {}]

InitHist ==
    /\ issued = {}
    /\ lastID = 0
    /\ removed = {}
    /\ nOps = 0

InitGo ==
    /\ gpc = [g \in Goroutines |-> "idle"]
    /\ garg = [g \in Goroutines |-> 0]
    /\ gret = [g \in Goroutines |-> NoRet]

\* NewStore, lines 128-135, on the file the program is started on
InitConfig(files) ==
    /\ file \in files
    /\ NewStore(file).ok
    /\ config = NewStore(file).config
    /\ lastSet = NoSet
    /\ got = NoGot
    /\ prompt = NoPrompt

InitInspect(replies) ==
    /\ ireply \in [Calls -> replies]
    /\ iresult = [c \in Calls |-> NoVerdict]
    /\ ientry = [c \in Calls |-> NoEntry]

InitChat(lists) == chat \in {[NoChat EXCEPT !.messages = l] : l \in lists}

\* The parts of the state that the proxy's and the store's own specifications
\* leave alone
InitRest ==
    /\ InitInspect({Reply("transport", "", "", 0)})
    /\ InitChat({<<>>})
    /\ boot = Booted
    /\ blk = NoBlk

Init ==
    /\ InitStore /\ InitHist /\ InitGo /\ InitProxy
    /\ InitConfig({AbsentFile})
    /\ InitRest

StoreStep(g) ==
    \/ AddLogLock(g)
    \/ AddLogAppend(g)
    \/ AddLogTrim(g)
    \/ AddLogUnlock(g)
    \/ GetLogsRLock(g)
    \/ GetLogsCopy(g)
    \/ GetLogsRUnlock(g)
    \/ DeleteLogLock(g)
    \/ DeleteLogBody(g)
    \/ DeleteLogUnlock(g)
    \/ ClearLogsLock(g)
    \/ ClearLogsBody(g)
    \/ ClearLogsUnlock(g)

StoreNext == \E g \in Goroutines : StoreStep(g)

SpecStore == Init /\ [][StoreNext]_vars

HandlerStep(h) ==
    \/ ServePassThrough(h)
    \/ ServeInvalid(h)
    \/ ServeInspect(h)
    \/ InspectFailed(h)
    \/ InspectBlocked(h)
    \/ InspectPassed(h)
    \/ BackendReturnsUnlogged(h)
    \/ BackendReturnsLogged(h)

Next ==
    \/ \E h \in Handlers : HandlerStep(h)
    \/ SetConfig

Spec == Init /\ [][Next]_vars

\* The dashboard and the configuration API rewriting the configuration of a
\* store that NewStore loaded from any of the start files.
InitOfConfig ==
    /\ InitStore /\ InitHist /\ InitGo /\ InitProxy
    /\ InitConfig(StartFiles)
    /\ InitRest

NextConfig ==
    \/ HandleConfigPost
    \/ HandleAPIConfigPost
    \/ GetConfig
    \/ SystemMessage

SpecConfig == InitOfConfig /\ [][NextConfig]_vars

\* The proxy serving requests of any method.
HandlerStepAnyMethod(h) ==
    \/ ServePassThroughBy(h, Methods)
    \/ ServeInvalidBy(h, Methods)
    \/ ServeInspectBy(h, Methods)
    \/ InspectFailed(h)
    \/ InspectBlocked(h)
    \/ InspectPassed(h)
    \/ BackendReturnsUnlogged(h)
    \/ BackendReturnsLogged(h)

NextAnyMethod ==
    \/ \E h \in Handlers : HandlerStepAnyMethod(h)
    \/ SetConfig

SpecAnyMethod == Init /\ [][NextAnyMethod]_vars

\* Inspect called twice, on any two replies of the classifier.
InitOfInspect ==
    /\ InitStore /\ InitHist /\ InitGo /\ InitProxy
    /\ InitConfig({AbsentFile})
    /\ InitInspect(AllReplies)
    /\ InitChat({<<>>})
    /\ boot = Booted
    /\ blk = NoBlk

NextInspect == \E c \in Calls : InspectReturns(c)

SpecInspect == InitOfInspect /\ [][NextInspect]_vars

\* Goroutines calling SetConfig and GetConfig, one lock step at a time.
NextSetConfig ==
    \E g \in Goroutines :
        \/ SetConfigLock(g)
        \/ SetConfigAssign(g)
        \/ SetConfigWriteWith(g, WriteOutcomes)
        \/ SetConfigUnlock(g)
        \/ GetConfigRLock(g)
        \/ GetConfigRUnlock(g)

SpecSetConfig == InitOfConfig /\ [][NextSetConfig]_vars

\* A handler's steps, every store call a lock step and an unlock step.
HandlerStoreStep(h) ==
    \/ AcceptInspected(h)
    \/ AcceptPassThrough(h)
    \/ ServeInvalid(h)
    \/ HandlerRLock(h)
    \/ SnapshotReturns(h)
    \/ InspectConfigReturns(h)
    \/ PromptConfigReturns(h)
    \/ ClassifierReturns(h)
    \/ HandlerLock(h)
    \/ HandlerAddLogReturns(h)
    \/ ForwardConfigReturns(h)
    \/ BackendReturns(h)

\* The handlers and the dashboard's goroutine on the store's mutex; the
\* dashboard's writes of the file succeed.
NextLock ==
    \/ \E h \in Handlers : HandlerStoreStep(h)
    \/ \E g \in {"g1"} :
        \/ GetLogsRLock(g)
        \/ GetLogsCopy(g)
        \/ GetLogsRUnlock(g)
        \/ DeleteLogLock(g)
        \/ DeleteLogBody(g)
        \/ DeleteLogUnlock(g)
        \/ ClearLogsLock(g)
        \/ ClearLogsBody(g)
        \/ ClearLogsUnlock(g)
        \/ SetConfigLock(g)
        \/ SetConfigAssign(g)
        \/ SetConfigWriteWith(g, {"written"})
        \/ SetConfigUnlock(g)
        \/ GetConfigRLock(g)
        \/ GetConfigRUnlock(g)

SpecLock == Init /\ [][NextLock]_vars

\* The handlers, one store call at a time, and SetConfig between their steps.
NextSnapshot ==
    \/ \E h \in Handlers : HandlerStoreStep(h)
    \/ SetConfigBetween

SpecSnapshot == Init /\ [][NextSnapshot]_vars

\* main starting on any file, then the configuration API at work.
InitOfBoot ==
    /\ InitStore /\ InitHist /\ InitGo /\ InitProxy
    /\ file \in BootFiles
    /\ config = DefaultConfig
    /\ lastSet = NoSet
    /\ got = NoGot
    /\ prompt = NoPrompt
    /\ InitInspect({Reply("transport", "", "", 0)})
    /\ InitChat({<<>>})
    /\ boot = [phase |-> "starting", found |-> ""]
    /\ blk = NoBlk

NextBoot ==
    \/ MainNewStore
    \/ MainEnvOverrides
    \/ boot.phase = "running" /\ HandleAPIConfigPost
    \/ boot.phase = "running" /\ GetConfig

SpecBoot == InitOfBoot /\ [][NextBoot]_vars

\* respondBlocked on every blocked request.
InitOfBlocked ==
    /\ InitStore /\ InitHist /\ InitGo /\ InitProxy
    /\ InitConfig({AbsentFile})
    /\ InitInspect({Reply("transport", "", "", 0)})
    /\ InitChat({<<>>})
    /\ boot = Booted
    /\ blk \in BlockedInputs

NextBlocked == RespondBlocked

SpecBlocked == InitOfBlocked /\ [][NextBlocked]_vars

\* handleChat's extraction on every message list.
InitOfChat ==
    /\ InitStore /\ InitHist /\ InitGo /\ InitProxy
    /\ InitConfig({AbsentFile})
    /\ InitInspect({Reply("transport", "", "", 0)})
    /\ InitChat(MessageLists)
    /\ boot = Booted
    /\ blk = NoBlk

NextChat == HandleChatExtract

SpecChat == InitOfChat /\ [][NextChat]_vars

(***************************************************************************)
(* Properties                                                               *)
(***************************************************************************)
\* The entries of the audit log that were logged for request number n.
EntriesOf(n) == {i \in 1..Len(logs) : logs[i].Req = n}

\* Handler h is past Inspect, and Inspect returned a verdict.
Classified(h) ==
    /\ req[h].n # 0
    /\ hpc[h] \in {"backend", "done"}
    /\ ncls[h] = 1
    /\ verdict[h].err = ""

C2_FailOpen ==
    /\ \A reply \in Replies :
        (reply.kind \in {"transport", "status", "envelope"} \/ reply.form = "text")
            => Inspect(reply).err # ""
    /\ \A h \in Handlers :
        (req[h].n # 0 /\ verdict[h].err # "") =>
            /\ hpc[h] \in {"backend", "done"}
            /\ \E i \in EntriesOf(req[h].n) :
                /\ logs[i].RiskLevel = "unknown"
                /\ logs[i].Score = -1
                /\ logs[i].Action = "forwarded (inspection error)"
            /\ nbk[h] = 1
            /\ sent[h] = req[h].body
            /\ resp[h].kind # "blocked"
            /\ action[h] # "blocked"

\* C2 witness: the classifier's content could not be parsed, and the request
\* was answered by the backend.
C2_Witness ==
    \E h \in Handlers :
        /\ verdict[h].err = "parse inspection result"
        /\ hpc[h] = "done"
        /\ resp[h].kind = "backend"
        /\ EntriesOf(req[h].n) # {}

\* C3: a request whose score is at most the threshold is forwarded, and only a
\* score strictly above the threshold is blocked (README: "score <= threshold
\* -> forward", "score > threshold -> block").
C3_BlockedOnlyAboveThreshold ==
    \A h \in Handlers :
        Classified(h) =>
            (action[h] = "blocked" <=> verdict[h].Score > snap[h].Threshold)

\* C4: every request to an inspected path with a well-formed JSON body has
\* exactly one audit entry once its handling ended, and never more than one
\* before; the entry of a request whose classification succeeded records the
\* verdict and the action, also when the backend call failed.
C4_OneEntryPerRequest ==
    \A h \in Handlers :
        (req[h].n # 0 /\ req[h].path \in {"/api/chat", "/api/generate"}
            /\ req[h].body.valid) =>
            /\ Cardinality(EntriesOf(req[h].n)) <= 1
            /\ hpc[h] = "done" =>
                /\ Cardinality(EntriesOf(req[h].n)) = 1
                /\ verdict[h].err = "" =>
                    \E i \in EntriesOf(req[h].n) :
                        /\ logs[i].Score = verdict[h].Score
                        /\ logs[i].RiskLevel = verdict[h].RiskLevel
                        /\ logs[i].Action = action[h]

\* C4 witness: a forwarded request whose backend call failed (502) has its
\* entry, while another request was blocked.
C4_Witness ==
    \E h, k \in Handlers :
        /\ hpc[h] = "done" /\ action[h] = "forwarded" /\ resp[h].status = 502
        /\ Cardinality(EntriesOf(req[h].n)) = 1
        /\ hpc[k] = "done" /\ action[k] = "blocked"
        /\ Cardinality(EntriesOf(req[k].n)) = 1

\* C5: no step of a handler serving a path other than /api/chat and
\* /api/generate changes the audit log or calls the classifier; the request
\* is handed to the backend, and no entry of the log is the request's.
C5_PassThroughLeavesLogAlone ==
    [][\A h \in Handlers :
        (hpc'[h] # hpc[h] /\ req'[h].path \notin {"/api/chat", "/api/generate"}) =>
            /\ logs' = logs
            /\ nextID' = nextID
            /\ ncls'[h] = 0
            /\ nbk'[h] = 1
            /\ sent'[h] = req'[h].body
            /\ \A i \in 1..Len(logs') : logs'[i].Req # req'[h].n]_vars

\* C5 witness: a pass-through request was answered by the backend while the
\* log holds the entry of another request.
C5_Witness ==
    \E h \in Handlers :
        /\ hpc[h] = "done"
        /\ req[h].path = "/api/tags"
        /\ resp[h].kind = "backend"
        /\ Len(logs) = 1

\* C6: a request to /api/chat or /api/generate whose body is not valid JSON is
\* answered 400; the classifier is not called, the backend is not contacted
\* and no audit entry is added for it.
C6_InvalidBodyRejected ==
    \A h \in Handlers :
        (req[h].n # 0 /\ req[h].path \in {"/api/chat", "/api/generate"}
            /\ ~req[h].body.valid) =>
            /\ hpc[h] = "done"
            /\ resp[h] = [status |-> 400, kind |-> "error"]
            /\ ncls[h] = 0
            /\ nbk[h] = 0
            /\ sent[h] = NoBody
            /\ EntriesOf(req[h].n) = {}

\* C6 witness: both inspected paths have rejected an invalid body.
C6_Witness ==
    \E h, k \in Handlers :
        /\ req[h].path = "/api/chat" /\ ~req[h].body.valid /\ resp[h].status = 400
        /\ req[k].path = "/api/generate" /\ ~req[k].body.valid /\ resp[k].status = 400

\* C7: whenever no writer holds the store's lock (AddLog holds 201 entries only
\* between its append and its trim, inside the lock) the audit log holds at
\* most 200 entries, and no GetLogs call returns more than 200 entries.
C7_LogNeverOverCapacity ==
    /\ mu.writer = NoOne => Len(logs) <= 200
    /\ \A g \in Goroutines : gpc[g] = "get_copied" => Len(gret[g]) <= 200

\* C7 witness: GetLogs returns a full log after entries were evicted.
C7_Witness ==
    \E g \in Goroutines :
        /\ gpc[g] = "get_copied"
        /\ Len(gret[g]) = 200
        /\ Cardinality(issued) > 200

\* The AddLog calls made so far.
Inserted == Cardinality(issued)

\* C8: after N > 200 AddLog calls and no DeleteLog or ClearLogs call, the log
\* holds exactly the entries N-199..N, oldest first, and GetLogs returns them
\* newest first.
C8_MostRecentKept ==
    (nOps = 0 /\ Inserted > 200) =>
        /\ mu.writer = NoOne =>
            /\ Len(logs) = 200
            /\ \A i \in 1..200 : logs[i].ID = Inserted - 200 + i
        /\ \A g \in Goroutines : gpc[g] = "get_copied" =>
            /\ Len(gret[g]) = 200
            /\ \A i \in 1..200 : gret[g][i].ID = Inserted + 1 - i

\* C8 witness: GetLogs returns after 202 insertions and nothing else.
C8_Witness ==
    \E g \in Goroutines :
        /\ nOps = 0
        /\ Inserted = 202
        /\ gpc[g] = "get_copied"

\* C9: after every step each entry of the log (empty at the start) has a
\* smaller id than the entry after it, so the ids are strictly ascending and no
\* two entries share one, and every AddLog appends an entry whose id is greater
\* than every id assigned before it.
C9_IdsAscendingNeverReused ==
    [][/\ \A i \in 1..(Len(logs') - 1) : logs'[i].ID < logs'[i + 1].ID
       /\ Len(logs') = Len(logs) + 1 =>
            \A id \in issued : logs'[Len(logs')].ID > id]_vars

\* C9 witness: after entries were evicted, the newest entry was deleted and the
\* log cleared, and the next AddLog's entry is the only one in the log.
C9_Witness ==
    /\ Inserted > 201
    /\ (lastID - 1) \in removed
    /\ Len(logs) = 1
    /\ logs[1].ID = lastID

\* C10: DeleteLog of an id that is not in the log returns false and leaves the
\* log as it is; DeleteLog of an id in the log returns true and removes that
\* entry alone, the others keeping their order; DeleteLog of an id that was
\* deleted before returns false and changes nothing.
C10_DeleteLogExact ==
    [][\A g \in Goroutines :
        (gpc[g] = "del_locked" /\ gpc'[g] = "del_done") =>
            LET id == garg[g]
                Others(e) == e.ID # id
            IN  /\ id \notin IDs(logs) => gret'[g] = FALSE /\ logs' = logs
                /\ id \in IDs(logs) =>
                    /\ gret'[g] = TRUE
                    /\ Len(logs') = Len(logs) - 1
                    /\ logs' = SelectSeq(logs, Others)
                /\ id \in removed => gret'[g] = FALSE /\ logs' = logs]_vars

\* C10 witness: the second DeleteLog of an id has returned false, the log
\* still holding other entries.
C10_Witness ==
    \E g \in Goroutines :
        /\ gpc[g] = "del_done"
        /\ garg[g] \in removed
        /\ gret[g] = FALSE
        /\ Len(logs) > 100

\* C11: the threshold of the configuration the store holds, and of every
\* configuration GetConfig hands out, is within 0..100, whether it came from
\* the configuration file at startup, the dashboard's form or the JSON
\* configuration API.
C11_ThresholdAlwaysInRange ==
    /\ config.Threshold \in 0..100
    /\ got.valid => got.cfg.Threshold \in 0..100

\* C12: GetConfig after SetConfig(cfg) returns cfg with its threshold clamped
\* to 0..100 and every other field as it was given.
C12_SetThenGetReturnsClamped ==
    (lastSet.called /\ got.valid) =>
        got.cfg = [lastSet.cfg EXCEPT !.Threshold = ClampThreshold(@)]

\* C13: when the file could not be written, SetConfig returned an error, the
\* configuration in memory is the one that was passed all the same, and a
\* GetConfig that follows returns it.
C13_SetConfigReplacesOnWriteError ==
    (lastSet.called /\ lastSet.outcome # "written") =>
        /\ lastSet.err # ""
        /\ config = lastSet.cfg
        /\ got.valid => got.cfg = lastSet.cfg

\* C13 witness: the configuration API's SetConfig failed on a truncated file
\* and was answered 500; GetConfig then returned the new configuration, which
\* is neither the default nor what the disk holds.
C13_Witness ==
    /\ lastSet.called /\ lastSet.outcome = "truncated" /\ lastSet.via = "api"
    /\ lastSet.status = 500
    /\ got.valid /\ got.cfg = lastSet.cfg
    /\ got.cfg # DefaultConfig
    /\ file.state = "truncated"

\* C14: the risk level of a verdict Inspect returns is a function of the
\* verdict's score alone, and a monotonic one: two verdicts with the same score
\* carry the same risk level, and a verdict with a lower score never carries a
\* more severe level (safe < suspicious < malicious).
C14_RiskLevelFromScoreAlone ==
    LET Severity(v) == IF v.RiskLevel = "safe" THEN 0
                       ELSE IF v.RiskLevel = "malicious" THEN 2 ELSE 1
    IN  \A a, b \in Calls :
            (/\ iresult[a] # NoVerdict /\ iresult[a].err = ""
             /\ iresult[b] # NoVerdict /\ iresult[b].err = "")
            => /\ iresult[a].Score = iresult[b].Score
                    => iresult[a].RiskLevel = iresult[b].RiskLevel
               /\ iresult[a].Score <= iresult[b].Score
                    => Severity(iresult[a]) <= Severity(iresult[b])

\* C15: Inspect returns an error whenever the reply carries no risk level: no
\* reply at all, a reply without content to read, content without a
\* risk_level in it (such as {}).
C15_NoRiskLevelIsAnError ==
    \A c \in Calls :
        (/\ iresult[c] # NoVerdict
         /\ \/ ireply[c].kind # "content"
            \/ ireply[c].form = "text"
            \/ ireply[c].risk = "")
        => iresult[c].err # ""

\* C16: content that holds a JSON verdict with other text around it, or the
\* verdict's fields outside well-formed JSON, yields that verdict and not an
\* error, as whole-text JSON does.
C16_WrappedVerdictRecovered ==
    \A c \in Calls :
        (/\ iresult[c] # NoVerdict
         /\ ireply[c].kind = "content"
         /\ ireply[c].form \in {"json", "wrapped", "fields"}
         /\ ireply[c].risk # "")
        => /\ iresult[c].err = ""
           /\ iresult[c].Score = ClampScore(ireply[c].score)

\* C17: the score of every verdict Inspect returns is within 0..100, and the
\* score of the audit entry built from what Inspect returned is -1 (Inspect
\* failed) or within 0..100.
C17_ScoresInRange ==
    \A c \in Calls :
        iresult[c] # NoVerdict =>
            /\ iresult[c].err = "" => iresult[c].Score \in 0..100
            /\ ientry[c].Score = -1 \/ ientry[c].Score \in 0..100
            /\ ientry[c].Score = -1 <=> iresult[c].err # ""

\* C17 witness: the classifier reported 120 to one call and -20 to the other;
\* the verdicts and their entries carry 100 and 0.
C17_Witness ==
    \E a, b \in Calls :
        /\ ireply[a].kind = "content" /\ ireply[a].score = 120
        /\ iresult[a] # NoVerdict /\ iresult[a].err = ""
        /\ iresult[a].Score = 100 /\ ientry[a].Score = 100
        /\ ireply[b].kind = "content" /\ ireply[b].score = -20
        /\ iresult[b] # NoVerdict /\ iresult[b].err = ""
        /\ iresult[b].Score = 0 /\ ientry[b].Score = 0

\* C18: a request to /api/chat or /api/generate whose method is not POST is
\* never inspected: no classifier call, no audit entry, no 400; it is handed to
\* the backend as it came.
C18_OnlyPostInspected ==
    \A h \in Handlers :
        (/\ req[h].n # 0
         /\ req[h].path \in {"/api/chat", "/api/generate"}
         /\ req[h].method # "POST")
        => /\ ncls[h] = 0
           /\ nbk[h] = 1
           /\ sent[h] = req[h].body
           /\ resp[h].status # 400
           /\ EntriesOf(req[h].n) = {}

\* C19: for one request the classifier is called at most once and the backend
\* at most once, a failed call is not made again, and the backend call starts
\* only after the classifier call has returned.
C19_OneCallEachInOrder ==
    \A h \in Handlers :
        /\ ncls[h] <= 1
        /\ nbk[h] <= 1
        /\ hpc[h] = "classifier" => nbk[h] = 0 /\ sent[h] = NoBody
        /\ (ncls[h] = 1 /\ nbk[h] = 1) => verdict[h] # NoVerdict
        /\ (hpc[h] = "done" /\ verdict[h].err # "") => ncls[h] = 1
        /\ (hpc[h] = "done" /\ resp[h].status = 502) => nbk[h] = 1

\* C19 witness: a request whose classifier call failed and whose backend call
\* failed after it is finished with one call of each.
C19_Witness ==
    \E h \in Handlers :
        /\ req[h].n # 0 /\ hpc[h] = "done"
        /\ verdict[h].err # ""
        /\ resp[h].status = 502
        /\ ncls[h] = 1 /\ nbk[h] = 1

\* C20: the system prompt is the custom text exactly when the selector is
\* "custom" and the custom text is not empty; otherwise it is the preset the
\* selector names, or the "standard" preset when it names none; it is never
\* empty.
C20_SystemPromptResolution ==
    prompt # NoPrompt =>
        LET sel == config.ActivePrompt
            txt == config.CustomPrompt
            custom == sel = "custom" /\ txt # ""
            preset == sel \in {"standard", "strict", "multilingual"}
        IN  /\ custom => prompt = txt
            /\ prompt = txt => custom
            /\ (~custom /\ preset) => prompt = presetPrompts[sel]
            /\ (~custom /\ ~preset) => prompt = presetPrompts["standard"]
            /\ prompt # ""

\* C20 witness: the selector is "custom", the custom text is empty, and the
\* prompt is the standard preset.
C20_Witness ==
    /\ config.ActivePrompt = "custom"
    /\ config.CustomPrompt = ""
    /\ prompt = presetPrompts["standard"]

\* C21: the content handleChat has inspected is the content of exactly the
\* messages whose role is "user", "system" or "tool", in message order, joined
\* with a blank line; the request is marked tool-originated exactly when one
\* of its messages has the role "tool".
C21_ChatContentFromInspectedRoles ==
    chat.called =>
        LET Inspected(m) == m.role \in {"user", "system", "tool"}
            picked == SelectSeq(chat.messages, Inspected)
            texts == [i \in 1..Len(picked) |-> picked[i].content]
        IN  /\ chat.content = Join(texts, "\n\n")
            /\ chat.fromTool <=>
                    \E i \in 1..Len(chat.messages) : chat.messages[i].role = "tool"

\* C21 witness: a user message, an assistant message and a tool message; the
\* content is the first and the third.
C21_Witness ==
    /\ chat.called
    /\ chat.messages = <<Message("user", "a"), Message("assistant", "a"),
                         Message("tool", "b")>>
    /\ chat.content = "a\n\nb"
    /\ chat.fromTool

\* C22: started on a file that is not valid JSON, NewStore fails and there is
\* no store to call; started without a file, NewStore returns a store with the
\* default configuration and the file stays absent until a SetConfig call
\* writes it.
C22_StoreInitialisation ==
    /\ (boot.phase # "starting" /\ boot.found = "truncated")
            => boot.phase = "failed" /\ ~lastSet.called /\ ~got.valid
    /\ boot.phase = "failed" => boot.found = "truncated"
    /\ (boot.found = "absent" /\ boot.phase = "loaded")
            => config = DefaultConfig /\ file = AbsentFile
    /\ (boot.found = "absent" /\ ~lastSet.called)
            => config = DefaultConfig /\ file = AbsentFile
    /\ (boot.found = "absent" /\ file # AbsentFile) => lastSet.called
    /\ (boot.found = "absent" /\ lastSet.called /\ lastSet.outcome = "written")
            => file = ConfigFile(lastSet.cfg)

\* C22 witness: started without a file, the program is running and the file
\* now holds what a SetConfig call of the configuration API wrote.
C22_Witness ==
    /\ boot.found = "absent" /\ boot.phase = "running"
    /\ lastSet.called /\ lastSet.via = "api" /\ lastSet.outcome = "written"
    /\ file = ConfigFile(config)
    /\ config # DefaultConfig

\* C23: the response written for a blocked request carries the inspection
\* message in message.content when the path is /api/chat and in response when
\* it is /api/generate, never in both; it has done = true and done_reason =
\* "blocked"; the message is the text with the verdict's score, risk level and
\* explanation in it.
C23_BlockedResponseShape ==
    blk.sent =>
        LET text == "[BLOCKED by AI Context Firewall] Risk score: "
                        \o ToString(blk.result.Score) \o "/100 ("
                        \o blk.result.RiskLevel \o "). " \o blk.result.Explanation
            fields == DOMAIN blk.body
        IN  /\ blk.path = "/api/chat" =>
                /\ "message" \in fields /\ "response" \notin fields
                /\ blk.body.message.content = text
            /\ blk.path = "/api/generate" =>
                /\ "response" \in fields /\ "message" \notin fields
                /\ blk.body.response = text
            /\ "done" \in fields /\ blk.body.done = TRUE
            /\ "done_reason" \in fields /\ blk.body.done_reason = "blocked"

\* C23 witness: a request to /api/generate blocked at score 70, malicious.
C23_Witness ==
    /\ blk.sent
    /\ blk.path = "/api/generate"
    /\ blk.result.Score = 70 /\ blk.result.RiskLevel = "malicious"
    /\ blk.result.Explanation # ""
    /\ blk.body.response =
        "[BLOCKED by AI Context Firewall] Risk score: 70/100 (malicious). asks to ignore previous instructions"

\* C24: the store's mutex is held only inside one store operation: a handler
\* that holds it is between the Lock/RLock and the deferred unlock of a
\* GetConfig or AddLog it called, the dashboard's goroutine is inside the
\* operation it called, and a handler whose classifier or backend call is in
\* flight holds it neither for writing nor for reading, so what a stalled
\* request leaves for the others is a mutex that is free or about to be
\* released by a store operation that waits for nothing.
C24_NoLockAcrossNetworkCalls ==
    LET inFlight == {"classifier", "backend"}
        readingH == {"snap_r", "icfg_r", "pcfg_r", "fcfg_r"}
        writingH == {"log_w"}
        readingG == {"get_locked", "get_copied", "cfg_locked"}
        writingG == {"del_locked", "del_done", "clr_locked", "clr_done",
                     "set_locked", "set_assigned", "set_written"}
    IN  /\ \A h \in Handlers :
            /\ hpc[h] \in inFlight => mu.writer # h /\ h \notin mu.readers
            /\ mu.writer = h <=> hpc[h] \in writingH
            /\ h \in mu.readers <=> hpc[h] \in readingH
        /\ \A g \in Goroutines :
            /\ mu.writer = g <=> gpc[g] \in writingG
            /\ g \in mu.readers <=> gpc[g] \in readingG
        /\ mu.writer # NoOne => mu.readers = {}

\* C24 witness: one request waits for the classifier and another for the
\* backend while the dashboard's SetConfig holds the mutex and has replaced
\* the configuration; a log entry was added meanwhile.
C24_Witness ==
    /\ hpc["h1"] = "classifier"
    /\ hpc["h2"] = "backend"
    /\ action["h2"] = ErrorAction
    /\ Len(logs) = 1
    /\ mu.writer = "g1"
    /\ gpc["g1"] = "set_assigned"
    /\ config # DefaultConfig

\* C25: a request whose classifier call was made used one configuration: the
\* model and the system prompt of the classifier request are those of the
\* configuration inspectAndForward read, which gives the threshold of the
\* decision and the model of the audit entry.
C25_OneConfigurationPerRequest ==
    \A h \in Handlers :
        ncls[h] = 1 =>
            \E c \in SnapshotConfigs :
                /\ snap[h].Threshold = c.Threshold
                /\ snap[h].InspectorModel = c.InspectorModel
                /\ creq[h].model = c.InspectorModel
                /\ creq[h].prompt =
                        (IF c.ActivePrompt = "strict" THEN "strict preset text"
                         ELSE "standard preset text")

\* C26: whenever no SetConfig call is in progress and the write of the last
\* one to return succeeded, the file holds the configuration that is in
\* memory, which is the one that call was given, and a GetConfig that has
\* returned since then returned it.
C26_FileMatchesMemoryWhenQuiet ==
    LET inSetConfig == {"set_locked", "set_assigned", "set_written"} IN
    ((\A g \in Goroutines : gpc[g] \notin inSetConfig)
        /\ lastSet.called /\ lastSet.outcome = "written")
    =>  /\ file = ConfigFile(config)
        /\ config = lastSet.cfg
        /\ got.valid => got.cfg = config

\* C26 witness: two SetConfig calls were made, none is in progress, the last
\* write succeeded, and memory, the file and a later GetConfig agree on a
\* configuration that is not the one the program started with.
C26_Witness ==
    /\ \A g \in Goroutines : gpc[g] = "idle"
    /\ nOps = 2
    /\ lastSet.called /\ lastSet.outcome = "written"
    /\ config.Threshold = 150
    /\ file = ConfigFile(config)
    /\ got.valid /\ got.cfg = config

====
